---- MODULE Spec2Model ----
(***************************************************************************)
(* Access-control behaviour of the OpenMD note backend (src/index.js).     *)
(* The record store is the pair of tables notes / shares, the session      *)
(* store is one record per browser session, and every HTTP handler is one  *)
(* action that leaves its response in the variable resp.                   *)
(*                                                                         *)
(* Conventions.  A JavaScript null / undefined column or session field is  *)
(* NULL (0) for numbers, NoToken ("") for strings and NoHash (<<>>) for    *)
(* bcrypt hashes; all three are falsy in the source as well.  A request    *)
(* field that is absent from the JSON body is UNDEFINED.  Time is counted  *)
(* in hours.  The columns created_at / updated_at are not modelled.        *)
(*                                                                         *)
(* reported is a history variable: the notes and shares that a read has    *)
(* answered 410 for.  inflight holds the requests that are between two of  *)
(* their awaits, for the handlers whose steps are modelled one by one.     *)
(***************************************************************************)
EXTENDS Integers, Sequences, FiniteSets, TLC

(* ------------------------------ bounds -------------------------------- *)
MaxNotes == 1
MaxUsers == 2
MaxSessions == 1
MaxTime == 3
MaxUnlocks == 2
MaxShares == 1
MaxViews == 2
MaxInflight == 3

(* --------------------------- value domains ---------------------------- *)
NULL == 0
NoToken == ""
NoHash == <<>>
UNDEFINED == "undefined"

Users == 1..MaxUsers
Sessions == 1..MaxSessions
NoteIds == 1..MaxNotes
Passwords == {"abc", "wrong"}
Tokens == {"tok-A", "tok-B"}
ShareCodes == {"k3x9q2ab", "p7m1z8cd"}
Visibilities == {"public", "private", "password"}

VARIABLES notes, nextNoteId, shares, nextShareId, session, now, resp, reported, inflight,
          db, pool

vars == <<notes, nextNoteId, shares, nextShareId, session, now, resp, reported, inflight,
          db, pool>>

(* ----------------------- opaque collaborators ------------------------- *)
\* bcrypt.hash(password, 10): a one-way value that is not the plaintext
bcryptHash(p) == <<"bcrypt", p>>

\* bcrypt.compare(password, hash)
bcryptCompare(p, h) == h = bcryptHash(p)

\* JSON.stringify(metadata) / JSON.parse(note.metadata)
JSONstringify(m) == <<"json", m>>
JSONparse(str) == str[2]

\* marked.parse(note.content)
markedParse(c) == <<"html", c>>

\* Array.prototype.includes
includes(arr, x) == \E i \in 1..Len(arr) : arr[i] = x

\* SELECT * FROM notes WHERE id = ?
selectNote(id) == IF id \in DOMAIN notes THEN <<notes[id]>> ELSE <<>>

\* SELECT * FROM shares WHERE share_code = ?
selectShare(code) ==
    IF \E i \in DOMAIN shares : shares[i].share_code = code
    THEN <<shares[CHOOSE i \in DOMAIN shares : shares[i].share_code = code]>>
    ELSE <<>>

\* a fresh express-session: no userId, no unlockedNotes, no unlockedShares
newSession == [userId |-> NULL, unlockedNotes |-> <<>>, unlockedShares |-> <<>>]

\* catch (error) { res.status(500).json(...) }
faultResponse == [status |-> 500, body |-> [error |-> "Internal server error"]]

\* Module state of src/database.js and src/index.js before any initDatabase
\* call: both flags false, no pool or connection created, server not
\* listening.  vercel is the VERCEL environment variable (no startup call).
dbBoot(vercel) ==
    [vercel |-> vercel, isInitialized |-> FALSE, dbInitialized |-> FALSE,
     created |-> 0, listening |-> FALSE, calls |-> <<>>]

\* The serverless pool module before any retrying call: no call running, no
\* connection handed out, no getConnection promise left pending.
poolIdle ==
    [pc |-> "idle", kind |-> "none", retries |-> 0, attempts |-> 0,
     connection |-> 0, error |-> [code |-> "none", message |-> ""],
     result |-> "none", conns |-> <<>>, pending |-> 0]

Init ==
    /\ notes = <<>>
    /\ nextNoteId = 1
    /\ shares = <<>>
    /\ nextShareId = 1
    /\ session = [s \in Sessions |-> newSession]
    /\ now = 1
    /\ resp = [op |-> "none", s |-> NULL, id |-> NULL, status |-> NULL, body |-> <<>>]
    /\ reported = [notes |-> {}, shares |-> {}]
    /\ inflight = <<>>
    /\ db = dbBoot(FALSE)
    /\ pool = poolIdle


(* --------------------------- request inputs --------------------------- *)
\* bodies of POST /api/notes: every combination of the access-control
\* fields, and the bodies that leave out the title or the content
CreateRequests ==
    [title : {"t1"}, content : {"c1"}, metadata : {UNDEFINED},
     visibility : Visibilities \cup {UNDEFINED, "bogus"},
     password : {UNDEFINED, "abc"}, expiresIn : {NULL, 1},
     authorToken : {UNDEFINED, "tok-A"}]
    \cup
    [title : {UNDEFINED}, content : {UNDEFINED, "c1"}, metadata : {UNDEFINED},
     visibility : {UNDEFINED}, password : {UNDEFINED}, expiresIn : {NULL},
     authorToken : {UNDEFINED}]

\* bodies of PUT /api/notes/:id: no field, one field, or all of them
UpdateFields ==
    { [title |-> UNDEFINED, content |-> UNDEFINED, metadata |-> UNDEFINED],
      [title |-> "t2", content |-> UNDEFINED, metadata |-> UNDEFINED],
      [title |-> UNDEFINED, content |-> "c2", metadata |-> UNDEFINED],
      [title |-> "t2", content |-> "c2", metadata |-> "m2"] }

UpdateRequests ==
    { [title |-> f.title, content |-> f.content, metadata |-> f.metadata,
       authorToken |-> t] : f \in UpdateFields, t \in {UNDEFINED} \cup Tokens }

(* ------------------------- session handling --------------------------- *)
\* faulty variant: the login starts a fresh session for the user
Login_freshSession(s, u) ==
    /\ session' = [session EXCEPT ![s] = [newSession EXCEPT !.userId = u]]
    /\ resp' = [op |-> "login", s |-> s, id |-> NULL, status |-> 200,
                body |-> [success |-> TRUE]]
    /\ UNCHANGED <<notes, nextNoteId, shares, nextShareId, now, reported, inflight, db, pool>>

\* POST /api/auth/login and /api/auth/register after loginUser / registerUser
\* succeeded for user u: the session keeps everything else it holds
Login(s, u) ==
    /\ session' = [session EXCEPT ![s].userId = u]
    /\ resp' = [op |-> "login", s |-> s, id |-> NULL, status |-> 200,
                body |-> [success |-> TRUE]]
    /\ UNCHANGED <<notes, nextNoteId, shares, nextShareId, now, reported, inflight, db, pool>>

\* POST /api/auth/logout: req.session.destroy(); the next request of that
\* browser starts a fresh session
Logout(s) ==
    /\ session' = [session EXCEPT ![s] = newSession]
    /\ resp' = [op |-> "logout", s |-> s, id |-> NULL, status |-> 200,
                body |-> [success |-> TRUE]]
    /\ UNCHANGED <<notes, nextNoteId, shares, nextShareId, now, reported, inflight, db, pool>>

\* the clock: new Date() moves on between requests
Tick ==
    /\ now < MaxTime
    /\ now' = now + 1
    /\ UNCHANGED <<notes, nextNoteId, shares, nextShareId, session, resp, reported, inflight, db, pool>>

(* ----------------------------- POST /api/notes ------------------------ *)
\* the row the INSERT stores
createRow(req, sess, id) ==
    [id |-> id,
     user_id |-> sess.userId,
     title |-> IF req.title = UNDEFINED THEN "Untitled" ELSE req.title,
     content |-> req.content,
     metadata |-> JSONstringify(IF req.metadata = UNDEFINED THEN "{}" ELSE req.metadata),
     visibility |-> IF req.visibility = UNDEFINED THEN "public" ELSE req.visibility,
     password |-> IF req.visibility = "password" /\ req.password # UNDEFINED
                  THEN bcryptHash(req.password) ELSE NoHash,
     expires_at |-> IF req.expiresIn # NULL THEN now + req.expiresIn ELSE NULL,
     author_token |-> IF req.authorToken = UNDEFINED THEN NoToken ELSE req.authorToken]

\* authorToken.substring(0, 8) + '...'
tokenPrefix(t) == IF t = NoToken \/ t = UNDEFINED THEN <<>> ELSE <<"prefix", t>>

createResponse(req, sess, id) ==
    IF req.content = UNDEFINED
    THEN [status |-> 400, body |-> [error |-> "Content is required"]]
    ELSE IF req.visibility # UNDEFINED /\ req.visibility \notin Visibilities
    THEN [status |-> 400, body |-> [error |-> "Invalid visibility value"]]
    ELSE IF req.visibility = "private" /\ sess.userId = NULL
    THEN [status |-> 401, body |-> [error |-> "login required"]]
    ELSE LET row == createRow(req, sess, id) IN
         [status |-> 200,
          body |-> [id |-> id, title |-> row.title, content |-> row.content,
                    metadata |-> JSONparse(row.metadata), visibility |-> row.visibility,
                    userId |-> row.user_id, authorToken |-> tokenPrefix(row.author_token)]]

CreateNote(s, req, fault) ==
    LET r == createResponse(req, session[s], nextNoteId) IN
    /\ nextNoteId <= MaxNotes
    /\ IF r.status = 200 /\ ~fault
       THEN /\ notes' = [i \in DOMAIN notes \cup {nextNoteId} |->
                            IF i = nextNoteId THEN createRow(req, session[s], nextNoteId)
                            ELSE notes[i]]
            /\ nextNoteId' = nextNoteId + 1
            /\ resp' = [op |-> "create", s |-> s, id |-> nextNoteId,
                        status |-> r.status, body |-> r.body]
       ELSE /\ UNCHANGED <<notes, nextNoteId>>
            /\ resp' = [op |-> "create", s |-> s, id |-> NULL,
                        status |-> IF r.status = 200 THEN 500 ELSE r.status,
                        body |-> IF r.status = 200 THEN faultResponse.body ELSE r.body]
    /\ UNCHANGED <<shares, nextShareId, session, now, reported, inflight, db, pool>>

(* --------------------------- GET /api/notes/:id ----------------------- *)
\* faulty variant: the private check only rejects a logged-in stranger
privateDenied_anonymousPasses(note, sess) ==
    note.visibility = "private"
    /\ sess.userId # NULL /\ sess.userId # note.user_id

\* note.visibility === 'private' && (!req.session.userId || userId !== note.user_id)
privateDenied(note, sess) ==
    note.visibility = "private"
    /\ (sess.userId = NULL \/ sess.userId # note.user_id)

\* note.expires_at && new Date(note.expires_at) < new Date()
isExpired(row) == row.expires_at # NULL /\ row.expires_at < now

\* faulty variant: a password note asks for the password also when no hash is stored
passwordLocked_withoutHash(note, sess) ==
    note.visibility = "password" /\ ~includes(sess.unlockedNotes, note.id)

\* faulty variant: an unlock by any session unlocks the note for every session
passwordLocked_anySession(note, sess) ==
    /\ note.visibility = "password" /\ note.password # NoHash
    /\ ~\E t \in DOMAIN session : includes(session[t].unlockedNotes, note.id)

\* faulty variant: the session's unlockedNotes is not consulted
passwordLocked_ignoresLedger(note, sess) ==
    note.visibility = "password" /\ note.password # NoHash

\* visibility 'password' with a stored hash, and the id not in req.session.unlockedNotes
passwordLocked(note, sess) ==
    note.visibility = "password" /\ note.password # NoHash
    /\ ~includes(sess.unlockedNotes, note.id)

\* faulty variant: the password prompt carries the content as well
passwordPrompt_withContent(note) ==
    [id |-> note.id, title |-> note.title, content |-> note.content,
     requiresPassword |-> TRUE, message |-> "password needed"]

\* the body sent for a locked note
passwordPrompt(note) ==
    [id |-> note.id, title |-> note.title,
     requiresPassword |-> TRUE, message |-> "password needed"]

\* faulty variant: the author_token column is deleted as well
noteJson_withoutToken(row) ==
    [f \in DOMAIN row \ {"password", "author_token"} |->
        IF f = "metadata" THEN JSONparse(row.metadata) ELSE row[f]]

\* faulty variant: the row is sent as stored, password column included
noteJson_keepsPassword(row) ==
    [f \in DOMAIN row |->
        IF f = "metadata" THEN JSONparse(row.metadata) ELSE row[f]]

\* the row with metadata parsed and the password column deleted
noteJson(row) ==
    [f \in DOMAIN row \ {"password"} |->
        IF f = "metadata" THEN JSONparse(row.metadata) ELSE row[f]]

\* faulty variant: a session that has unlocked the note reads it past its expiry
getNoteResponse_unlockedSkipsExpiry(rows, sess) ==
    IF Len(rows) = 0
    THEN [status |-> 404, body |-> [error |-> "Note not found"]]
    ELSE LET note == rows[1] IN
         IF privateDenied(note, sess)
         THEN [status |-> 403, body |-> [error |-> "forbidden"]]
         ELSE IF isExpired(note) /\ ~includes(sess.unlockedNotes, note.id)
         THEN [status |-> 410, body |-> [error |-> "expired"]]
         ELSE IF passwordLocked(note, sess)
         THEN [status |-> 200, body |-> passwordPrompt(note)]
         ELSE [status |-> 200, body |-> noteJson(note)]

\* faulty variant: the password prompt is decided before the expiry check
getNoteResponse_passwordBeforeExpiry(rows, sess) ==
    IF Len(rows) = 0
    THEN [status |-> 404, body |-> [error |-> "Note not found"]]
    ELSE LET note == rows[1] IN
         IF privateDenied(note, sess)
         THEN [status |-> 403, body |-> [error |-> "forbidden"]]
         ELSE IF passwordLocked(note, sess)
         THEN [status |-> 200, body |-> passwordPrompt(note)]
         ELSE IF isExpired(note)
         THEN [status |-> 410, body |-> [error |-> "expired"]]
         ELSE [status |-> 200, body |-> noteJson(note)]

getNoteResponse(rows, sess) ==
    IF Len(rows) = 0
    THEN [status |-> 404, body |-> [error |-> "Note not found"]]
    ELSE LET note == rows[1] IN
         IF privateDenied(note, sess)
         THEN [status |-> 403, body |-> [error |-> "forbidden"]]
         ELSE IF isExpired(note)
         THEN [status |-> 410, body |-> [error |-> "expired"]]
         ELSE IF passwordLocked(note, sess)
         THEN [status |-> 200, body |-> passwordPrompt(note)]
         ELSE [status |-> 200, body |-> noteJson(note)]

GetNote(s, id, fault) ==
    LET r == IF fault THEN faultResponse ELSE getNoteResponse(selectNote(id), session[s]) IN
    /\ resp' = [op |-> "getNote", s |-> s, id |-> id, status |-> r.status, body |-> r.body]
    /\ reported' = IF r.status = 410
                   THEN [reported EXCEPT !.notes = @ \cup {id}]
                   ELSE reported
    /\ UNCHANGED <<notes, nextNoteId, shares, nextShareId, session, now, inflight, db, pool>>

(* ------------------------------ GET /note/:id ------------------------- *)
\* the rendered page: title, metadata and the rendered content of the row
notePageResponse(rows) ==
    IF Len(rows) = 0
    THEN [status |-> 404, body |-> [error |-> "Note not found"]]
    ELSE LET note == rows[1] IN
         [status |-> 200,
          body |-> [title |-> note.title, metadata |-> JSONparse(note.metadata),
                    htmlContent |-> markedParse(note.content)]]

ViewNotePage(s, id, fault) ==
    LET r == IF fault THEN faultResponse ELSE notePageResponse(selectNote(id)) IN
    /\ resp' = [op |-> "notePage", s |-> s, id |-> id, status |-> r.status, body |-> r.body]
    /\ UNCHANGED <<notes, nextNoteId, shares, nextShareId, session, now, reported, inflight, db, pool>>

(* --------------------------- PUT /api/notes/:id ----------------------- *)
\* faulty variant: the owner's session passes without the token
updatePermitted_ownerBypassesToken(note, sess, req) ==
    IF note.author_token # NoToken /\ ~(sess.userId # NULL /\ sess.userId = note.user_id)
    THEN ~(req.authorToken = UNDEFINED \/ req.authorToken # note.author_token)
    ELSE ~(note.user_id # NULL /\ sess.userId # NULL /\ sess.userId # note.user_id)

\* faulty variant: without a token the session user must equal the note's user_id
updatePermitted_strictOwner(note, sess, req) ==
    IF note.author_token # NoToken
    THEN ~(req.authorToken = UNDEFINED \/ req.authorToken # note.author_token)
    ELSE sess.userId = note.user_id

\* the permission check of the update handler; TRUE when the request goes on
updatePermitted(note, sess, req) ==
    IF note.author_token # NoToken
    THEN ~(req.authorToken = UNDEFINED \/ req.authorToken # note.author_token)
    ELSE ~(note.user_id # NULL /\ sess.userId # NULL /\ sess.userId # note.user_id)

\* faulty variant: the update also stores the token the request carries
updateRow_storesToken(note, req) ==
    [note EXCEPT
        !.title = IF req.title # UNDEFINED THEN req.title ELSE @,
        !.content = IF req.content # UNDEFINED THEN req.content ELSE @,
        !.metadata = IF req.metadata # UNDEFINED THEN JSONstringify(req.metadata) ELSE @,
        !.author_token = IF req.authorToken # UNDEFINED THEN req.authorToken ELSE @]

\* UPDATE notes SET <the supplied fields> WHERE id = ?
updateRow(note, req) ==
    [note EXCEPT
        !.title = IF req.title # UNDEFINED THEN req.title ELSE @,
        !.content = IF req.content # UNDEFINED THEN req.content ELSE @,
        !.metadata = IF req.metadata # UNDEFINED THEN JSONstringify(req.metadata) ELSE @]

updateResponse(rows, sess, req) ==
    IF Len(rows) = 0
    THEN [status |-> 404, body |-> [error |-> "Note not found"]]
    ELSE IF ~updatePermitted(rows[1], sess, req)
    THEN [status |-> 403, body |-> [error |-> "forbidden"]]
    ELSE [status |-> 200, body |-> [success |-> TRUE]]

UpdateNote(s, id, req, fault) ==
    LET r == IF fault THEN faultResponse
             ELSE updateResponse(selectNote(id), session[s], req) IN
    /\ notes' = IF r.status = 200
                THEN [notes EXCEPT ![id] = updateRow(notes[id], req)]
                ELSE notes
    /\ resp' = [op |-> "update", s |-> s, id |-> id, status |-> r.status, body |-> r.body]
    /\ UNCHANGED <<nextNoteId, shares, nextShareId, session, now, reported, inflight, db, pool>>

(* -------------------------- DELETE /api/notes/:id --------------------- *)
\* the permission check of the delete handler, on SELECT user_id FROM notes
deletePermitted(rows, sess) ==
    ~(Len(rows) > 0 /\ rows[1].user_id # NULL
      /\ sess.userId # NULL /\ sess.userId # rows[1].user_id)

deleteResponse(rows, sess) ==
    IF ~deletePermitted(rows, sess)
    THEN [status |-> 403, body |-> [error |-> "forbidden"]]
    ELSE [status |-> 200, body |-> [success |-> TRUE]]

\* FOREIGN KEY (note_id) REFERENCES notes(id) ON DELETE CASCADE: MySQL removes
\* the note's shares; SQLite, opened without PRAGMA foreign_keys, keeps them
cascadeShares(id, cascade) ==
    IF cascade
    THEN [i \in {j \in DOMAIN shares : shares[j].note_id # id} |-> shares[i]]
    ELSE shares

DeleteNote(s, id, cascade, fault) ==
    LET r == IF fault THEN faultResponse
             ELSE deleteResponse(selectNote(id), session[s]) IN
    /\ notes' = IF r.status = 200
                THEN [i \in DOMAIN notes \ {id} |-> notes[i]]
                ELSE notes
    /\ shares' = IF r.status = 200 /\ id \in DOMAIN notes
                 THEN cascadeShares(id, cascade) ELSE shares
    /\ resp' = [op |-> "delete", s |-> s, id |-> id, status |-> r.status, body |-> r.body]
    /\ UNCHANGED <<nextNoteId, nextShareId, session, now, reported, inflight, db, pool>>

(* ------------------------ POST /api/notes/:id/unlock ------------------ *)
\* faulty variant: the supplied password is not compared with the hash
unlockNoteResponse_anyPassword(rows, password) ==
    IF Len(rows) = 0
    THEN [status |-> 404, body |-> [error |-> "Note not found"]]
    ELSE [status |-> 200, body |-> [success |-> TRUE]]

\* bcrypt.compare rejects a missing password, which the handler's catch
\* turns into the 500 response
unlockNoteResponse(rows, password) ==
    IF Len(rows) = 0
    THEN [status |-> 404, body |-> [error |-> "Note not found"]]
    ELSE LET note == rows[1] IN
         IF note.visibility = "password" /\ note.password # NoHash
         THEN IF password = UNDEFINED THEN faultResponse
              ELSE IF ~bcryptCompare(password, note.password)
              THEN [status |-> 401, body |-> [error |-> "wrong password"]]
              ELSE [status |-> 200, body |-> [success |-> TRUE]]
         ELSE [status |-> 200, body |-> [success |-> TRUE]]

\* faulty variant: the id is pushed before the calls that can fail
UnlockNote_pushBeforeFault(s, id, password, fault) ==
    LET r == IF fault THEN faultResponse
             ELSE unlockNoteResponse(selectNote(id), password) IN
    /\ Len(session[s].unlockedNotes) < MaxUnlocks
    /\ session' = IF r.status \in {200, 500}
                  THEN [session EXCEPT ![s].unlockedNotes = Append(@, id)]
                  ELSE session
    /\ resp' = [op |-> "unlock", s |-> s, id |-> id, status |-> r.status, body |-> r.body]
    /\ UNCHANGED <<notes, nextNoteId, shares, nextShareId, now, reported, inflight, db, pool>>

\* every await of the handler comes before the push, so a collaborator that
\* fails at any of them (fault) ends the request in the catch
UnlockNote(s, id, password, fault) ==
    LET r == IF fault THEN faultResponse
             ELSE unlockNoteResponse(selectNote(id), password) IN
    /\ r.status = 200 => Len(session[s].unlockedNotes) < MaxUnlocks
    /\ session' = IF r.status = 200
                  THEN [session EXCEPT ![s].unlockedNotes = Append(@, id)]
                  ELSE session
    /\ resp' = [op |-> "unlock", s |-> s, id |-> id, status |-> r.status, body |-> r.body]
    /\ UNCHANGED <<notes, nextNoteId, shares, nextShareId, now, reported, inflight, db, pool>>

(* ------------------------------ GET /api/notes ------------------------ *)
\* the row of the list: metadata parsed, password replaced by a flag
listItem(row) ==
    [f \in DOMAIN row |->
        IF f = "metadata" THEN JSONparse(row.metadata)
        ELSE IF f = "password" THEN row.password # NoHash
        ELSE row[f]]

\* faulty variant: a login is enough, includePrivate is not looked at
listRows_ignoresFlag(sess, includePrivate) ==
    IF sess.userId # NULL
    THEN {i \in DOMAIN notes :
            notes[i].visibility = "public" \/ notes[i].user_id = sess.userId}
    ELSE {i \in DOMAIN notes : notes[i].visibility = "public"}

\* WHERE visibility = 'public', or with includePrivate=true and a login
\* WHERE (visibility = 'public' OR user_id = ?); the order of the rows and
\* LIMIT 100 are left out, the body is the set of the rows
listRows(sess, includePrivate) ==
    IF includePrivate /\ sess.userId # NULL
    THEN {i \in DOMAIN notes :
            notes[i].visibility = "public" \/ notes[i].user_id = sess.userId}
    ELSE {i \in DOMAIN notes : notes[i].visibility = "public"}

listResponse(sess, includePrivate) ==
    [status |-> 200, body |-> {listItem(notes[i]) : i \in listRows(sess, includePrivate)}]

ListNotes(s, includePrivate, fault) ==
    LET r == IF fault THEN faultResponse ELSE listResponse(session[s], includePrivate) IN
    /\ resp' = [op |-> "list", s |-> s, id |-> NULL, status |-> r.status, body |-> r.body]
    /\ UNCHANGED <<notes, nextNoteId, shares, nextShareId, session, now, reported, inflight, db, pool>>

(* ---------------------------------- GET / ----------------------------- *)
\* the cards of the home page: id, title and metadata of the public notes
homeResponse ==
    [status |-> 200,
     body |-> {[id |-> notes[i].id, title |-> notes[i].title,
                metadata |-> JSONparse(notes[i].metadata)] :
               i \in {j \in DOMAIN notes : notes[j].visibility = "public"}}]

\* .catch(err => res.send('Error loading notes')): no status is set
HomePage(s, fault) ==
    LET r == IF fault THEN [status |-> 200, body |-> [error |-> "Error loading notes"]]
             ELSE homeResponse IN
    /\ resp' = [op |-> "home", s |-> s, id |-> NULL, status |-> r.status, body |-> r.body]
    /\ UNCHANGED <<notes, nextNoteId, shares, nextShareId, session, now, reported, inflight, db, pool>>

(* ----------------------------- POST /api/shares ----------------------- *)
\* bodies of POST /api/shares
ShareRequests ==
    [noteId : NoteIds \cup {NULL}, password : {UNDEFINED, "abc"}, expiresIn : {NULL, 1}]

shareRow(req, code, id) ==
    [id |-> id,
     note_id |-> req.noteId,
     share_code |-> code,
     password |-> IF req.password # UNDEFINED THEN bcryptHash(req.password) ELSE NoHash,
     expires_at |-> IF req.expiresIn # NULL THEN now + req.expiresIn ELSE NULL,
     views |-> 0]

\* share_code is UNIQUE: the INSERT of a code already stored throws
createShareResponse(req, code) ==
    IF req.noteId = NULL
    THEN [status |-> 400, body |-> [error |-> "noteId is required"]]
    ELSE IF Len(selectNote(req.noteId)) = 0
    THEN [status |-> 404, body |-> [error |-> "Note not found"]]
    ELSE IF Len(selectShare(code)) # 0
    THEN faultResponse
    ELSE [status |-> 200, body |-> [success |-> TRUE, shareCode |-> code]]

\* generateShareCode() is the choice of code
CreateShare(s, req, code, fault) ==
    LET r == IF fault THEN faultResponse ELSE createShareResponse(req, code) IN
    /\ nextShareId <= MaxShares
    /\ IF r.status = 200
       THEN /\ shares' = [i \in DOMAIN shares \cup {nextShareId} |->
                            IF i = nextShareId THEN shareRow(req, code, nextShareId)
                            ELSE shares[i]]
            /\ nextShareId' = nextShareId + 1
       ELSE UNCHANGED <<shares, nextShareId>>
    /\ resp' = [op |-> "createShare", s |-> s, id |-> NULL, code |-> code,
                status |-> r.status, body |-> r.body]
    /\ UNCHANGED <<notes, nextNoteId, session, now, reported, inflight, db, pool>>

(* --------------------------- GET /api/shares/:code -------------------- *)
shareInfoResponse(rows) ==
    IF Len(rows) = 0
    THEN [status |-> 404, body |-> [error |-> "Share not found"]]
    ELSE LET share == rows[1] IN
         IF isExpired(share)
         THEN [status |-> 410, body |-> [error |-> "expired"]]
         ELSE [status |-> 200,
               body |-> [id |-> share.id, shareCode |-> share.share_code,
                         hasPassword |-> share.password # NoHash,
                         expiresAt |-> share.expires_at, views |-> share.views]]

GetShare(s, code, fault) ==
    LET r == IF fault THEN faultResponse ELSE shareInfoResponse(selectShare(code)) IN
    /\ resp' = [op |-> "getShare", s |-> s, id |-> NULL, code |-> code,
                status |-> r.status, body |-> r.body]
    /\ UNCHANGED <<notes, nextNoteId, shares, nextShareId, session, now, reported, inflight, db, pool>>

(* ------------------------ POST /api/shares/:code/unlock --------------- *)
unlockShareResponse(rows, password) ==
    IF Len(rows) = 0
    THEN [status |-> 404, body |-> [error |-> "Share not found"]]
    ELSE LET share == rows[1] IN
         IF share.password # NoHash
         THEN IF password = UNDEFINED THEN faultResponse
              ELSE IF ~bcryptCompare(password, share.password)
              THEN [status |-> 401, body |-> [error |-> "wrong password"]]
              ELSE [status |-> 200, body |-> [success |-> TRUE]]
         ELSE [status |-> 200, body |-> [success |-> TRUE]]

UnlockShare(s, code, password, fault) ==
    LET rows == selectShare(code)
        r == IF fault THEN faultResponse ELSE unlockShareResponse(rows, password) IN
    /\ r.status = 200 => Len(session[s].unlockedShares) < MaxUnlocks
    /\ session' = IF r.status = 200
                  THEN [session EXCEPT ![s].unlockedShares = Append(@, rows[1].id)]
                  ELSE session
    /\ resp' = [op |-> "unlockShare", s |-> s, id |-> NULL, code |-> code,
                status |-> r.status, body |-> r.body]
    /\ UNCHANGED <<notes, nextNoteId, shares, nextShareId, now, reported, inflight, db, pool>>

(* ------------------------------ GET /share/:code ---------------------- *)
\* faulty variant: the share page applies the note's own read policy
viewShareResponse_checksNote(rows, sess) ==
    IF Len(rows) = 0
    THEN [status |-> 404, body |-> [error |-> "Share not found"]]
    ELSE LET share == rows[1] IN
         IF isExpired(share)
         THEN [status |-> 410, body |-> [error |-> "Share expired"]]
         ELSE IF share.password # NoHash /\ ~includes(sess.unlockedShares, share.id)
         THEN [status |-> 200, body |-> [passwordPage |-> TRUE]]
         ELSE IF Len(selectNote(share.note_id)) = 0
         THEN [status |-> 404, body |-> [error |-> "Note not found"]]
         ELSE LET note == selectNote(share.note_id)[1] IN
              IF privateDenied(note, sess) \/ isExpired(note) \/ passwordLocked(note, sess)
              THEN [status |-> 404, body |-> [error |-> "Note not found"]]
              ELSE [status |-> 200,
                    body |-> [title |-> note.title, metadata |-> JSONparse(note.metadata),
                              htmlContent |-> markedParse(note.content),
                              views |-> share.views]]

\* faulty variant: the password page is decided before the expiry
viewShareResponse_passwordBeforeExpiry(rows, sess) ==
    IF Len(rows) = 0
    THEN [status |-> 404, body |-> [error |-> "Share not found"]]
    ELSE LET share == rows[1] IN
         IF share.password # NoHash /\ ~includes(sess.unlockedShares, share.id)
         THEN [status |-> 200, body |-> [passwordPage |-> TRUE]]
         ELSE IF isExpired(share)
         THEN [status |-> 410, body |-> [error |-> "Share expired"]]
         ELSE IF Len(selectNote(share.note_id)) = 0
         THEN [status |-> 404, body |-> [error |-> "Note not found"]]
         ELSE LET note == selectNote(share.note_id)[1] IN
              [status |-> 200,
               body |-> [title |-> note.title, metadata |-> JSONparse(note.metadata),
                         htmlContent |-> markedParse(note.content),
                         views |-> share.views]]

\* the share page; the views shown are the ones loaded before the increment
viewShareResponse(rows, sess) ==
    IF Len(rows) = 0
    THEN [status |-> 404, body |-> [error |-> "Share not found"]]
    ELSE LET share == rows[1] IN
         IF isExpired(share)
         THEN [status |-> 410, body |-> [error |-> "Share expired"]]
         ELSE IF share.password # NoHash /\ ~includes(sess.unlockedShares, share.id)
         THEN [status |-> 200, body |-> [passwordPage |-> TRUE]]
         ELSE IF Len(selectNote(share.note_id)) = 0
         THEN [status |-> 404, body |-> [error |-> "Note not found"]]
         ELSE LET note == selectNote(share.note_id)[1] IN
              [status |-> 200,
               body |-> [title |-> note.title, metadata |-> JSONparse(note.metadata),
                         htmlContent |-> markedParse(note.content),
                         views |-> share.views]]

\* faulty variant: every view of a stored share is counted, whatever it answers
ViewShare_countsEveryView(s, code, fault) ==
    LET rows == selectShare(code)
        r == IF fault THEN faultResponse ELSE viewShareResponse(rows, session[s]) IN
    /\ Len(rows) # 0 => rows[1].views < MaxViews
    /\ shares' = IF Len(rows) # 0
                 THEN [shares EXCEPT ![rows[1].id].views = @ + 1]
                 ELSE shares
    /\ resp' = [op |-> "viewShare", s |-> s, id |-> NULL, code |-> code,
                status |-> r.status, body |-> r.body]
    /\ reported' = IF r.status = 410
                   THEN [reported EXCEPT !.shares = @ \cup {rows[1].id}]
                   ELSE reported
    /\ UNCHANGED <<notes, nextNoteId, nextShareId, session, now, inflight, db, pool>>

\* UPDATE shares SET views = views + 1 WHERE id = ?, before the page is sent
ViewShare(s, code, fault) ==
    LET rows == selectShare(code)
        r == IF fault THEN faultResponse ELSE viewShareResponse(rows, session[s])
        served == r.status = 200 /\ "htmlContent" \in DOMAIN r.body IN
    /\ served => rows[1].views < MaxViews
    /\ shares' = IF served
                 THEN [shares EXCEPT ![rows[1].id].views = @ + 1]
                 ELSE shares
    /\ resp' = [op |-> "viewShare", s |-> s, id |-> NULL, code |-> code,
                status |-> r.status, body |-> r.body]
    /\ reported' = IF r.status = 410
                   THEN [reported EXCEPT !.shares = @ \cup {rows[1].id}]
                   ELSE reported
    /\ UNCHANGED <<notes, nextNoteId, nextShareId, session, now, inflight, db, pool>>

Next ==
    \/ \E s \in DOMAIN session, u \in Users : Login(s, u)
    \/ \E s \in DOMAIN session : Logout(s)
    \/ Tick
    \/ \E s \in DOMAIN session, req \in CreateRequests, fault \in BOOLEAN :
          CreateNote(s, req, fault)
    \/ \E s \in DOMAIN session, id \in NoteIds, fault \in BOOLEAN : GetNote(s, id, fault)
    \/ \E s \in DOMAIN session, id \in NoteIds, fault \in BOOLEAN : ViewNotePage(s, id, fault)
    \/ \E s \in DOMAIN session, id \in NoteIds, req \in UpdateRequests, fault \in BOOLEAN :
          UpdateNote(s, id, req, fault)
    \/ \E s \in DOMAIN session, id \in NoteIds, cascade \in BOOLEAN, fault \in BOOLEAN :
          DeleteNote(s, id, cascade, fault)
    \/ \E s \in DOMAIN session, id \in NoteIds, pw \in Passwords \cup {UNDEFINED},
          fault \in BOOLEAN : UnlockNote(s, id, pw, fault)

Spec == Init /\ [][Next]_vars

\* The read paths of notes and shares, over notes of every visibility and
\* owner and shares with and without a password.
ReadsCreateRequests ==
    {req \in CreateRequests : req.authorToken = UNDEFINED /\ req.expiresIn = NULL}

NextReads ==
    \/ \E s \in DOMAIN session, u \in Users : Login(s, u)
    \/ Tick
    \/ \E s \in DOMAIN session, req \in ReadsCreateRequests : CreateNote(s, req, FALSE)
    \/ \E s \in DOMAIN session, id \in NoteIds, pw \in Passwords : UnlockNote(s, id, pw, FALSE)
    \/ \E s \in DOMAIN session, id \in NoteIds, fault \in BOOLEAN : GetNote(s, id, fault)
    \/ \E s \in DOMAIN session, id \in NoteIds, fault \in BOOLEAN : ViewNotePage(s, id, fault)
    \/ \E s \in DOMAIN session, ip \in BOOLEAN, fault \in BOOLEAN : ListNotes(s, ip, fault)
    \/ \E s \in DOMAIN session, fault \in BOOLEAN : HomePage(s, fault)
    \/ \E s \in DOMAIN session, req \in ShareRequests, code \in ShareCodes :
          CreateShare(s, req, code, FALSE)
    \/ \E s \in DOMAIN session, code \in ShareCodes, fault \in BOOLEAN : GetShare(s, code, fault)
    \/ \E s \in DOMAIN session, code \in ShareCodes, fault \in BOOLEAN : ViewShare(s, code, fault)
    \/ \E s \in DOMAIN session, code \in ShareCodes, pw \in Passwords :
          UnlockShare(s, code, pw, FALSE)

SpecReads == Init /\ [][NextReads]_vars

\* Notes and the shares of them side by side: sessions that log in and out,
\* notes that expire, are unlocked and are deleted with and without the
\* cascade, shares that expire, are unlocked and are viewed.
ShareNoteRequests ==
    {req \in CreateRequests :
        /\ req.title = "t1" /\ req.authorToken = UNDEFINED
        /\ req.visibility \in {UNDEFINED, "private", "password"}
        /\ req.password # UNDEFINED => req.visibility = "password"}

\* an update that names no field: the row is rewritten as it is
ShareUpdateRequests ==
    {req \in UpdateRequests :
        req.title = UNDEFINED /\ req.content = UNDEFINED /\ req.authorToken = UNDEFINED}

\* the code generateShareCode() hands out where one stored share is enough
IssuedCode == CHOOSE code \in ShareCodes : TRUE

NextShare ==
    \/ \E s \in DOMAIN session, u \in Users : Login(s, u)
    \/ \E s \in DOMAIN session : Logout(s)
    \/ Tick
    \/ \E s \in DOMAIN session, req \in ShareNoteRequests : CreateNote(s, req, FALSE)
    \/ \E s \in DOMAIN session, id \in NoteIds : GetNote(s, id, FALSE)
    \/ \E s \in DOMAIN session, id \in NoteIds, pw \in Passwords : UnlockNote(s, id, pw, FALSE)
    \/ \E s \in DOMAIN session, id \in NoteIds, req \in ShareUpdateRequests :
          UpdateNote(s, id, req, FALSE)
    \/ \E s \in DOMAIN session, id \in NoteIds, cascade \in BOOLEAN :
          DeleteNote(s, id, cascade, FALSE)
    \/ \E s \in DOMAIN session, req \in ShareRequests : CreateShare(s, req, IssuedCode, FALSE)
    \/ \E s \in DOMAIN session, code \in ShareCodes : ViewShare(s, code, FALSE)
    \/ \E s \in DOMAIN session, code \in ShareCodes, pw \in Passwords :
          UnlockShare(s, code, pw, FALSE)

SpecShare == Init /\ [][NextShare]_vars

\* Two browsers at once: one more session than Sessions holds, a note and a
\* share that ask for a password, and unlocks and reads from both sessions.
InitPair ==
    /\ notes = <<>>
    /\ nextNoteId = 1
    /\ shares = <<>>
    /\ nextShareId = 1
    /\ session = [s \in 1..(MaxSessions + 1) |-> newSession]
    /\ now = 1
    /\ resp = [op |-> "none", s |-> NULL, id |-> NULL, status |-> NULL, body |-> <<>>]
    /\ reported = [notes |-> {}, shares |-> {}]
    /\ inflight = <<>>
    /\ db = dbBoot(FALSE)
    /\ pool = poolIdle

PairNoteRequests ==
    {req \in CreateRequests :
        /\ req.title = "t1" /\ req.authorToken = UNDEFINED /\ req.expiresIn = NULL
        /\ req.visibility \in {UNDEFINED, "password"}
        /\ req.password # UNDEFINED => req.visibility = "password"}

PairShareRequests == {req \in ShareRequests : req.noteId # NULL /\ req.expiresIn = NULL}

NextPair ==
    \/ \E s \in DOMAIN session, req \in PairNoteRequests : CreateNote(s, req, FALSE)
    \/ \E s \in DOMAIN session, req \in PairShareRequests : CreateShare(s, req, IssuedCode, FALSE)
    \/ \E s \in DOMAIN session, id \in NoteIds, pw \in Passwords : UnlockNote(s, id, pw, FALSE)
    \/ \E s \in DOMAIN session, pw \in Passwords : UnlockShare(s, IssuedCode, pw, FALSE)
    \/ \E s \in DOMAIN session, id \in NoteIds : GetNote(s, id, FALSE)
    \/ \E s \in DOMAIN session : ViewShare(s, IssuedCode, FALSE)
    \/ \E s \in DOMAIN session : Logout(s)

SpecPair == InitPair /\ [][NextPair]_vars

\* Creation and update only: notes of every visibility, owner, token, hash
\* and expiry, and every update request from every kind of session.
NextUpdate ==
    \/ \E s \in DOMAIN session, u \in Users : Login(s, u)
    \/ \E s \in DOMAIN session : Logout(s)
    \/ \E s \in DOMAIN session, req \in CreateRequests, fault \in BOOLEAN :
          CreateNote(s, req, fault)
    \/ \E s \in DOMAIN session, id \in NoteIds, req \in UpdateRequests, fault \in BOOLEAN :
          UpdateNote(s, id, req, fault)
    \/ \E s \in DOMAIN session, id \in NoteIds, fault \in BOOLEAN : GetNote(s, id, fault)

SpecUpdate == Init /\ [][NextUpdate]_vars

(* ----------------------------- route dispatch ------------------------ *)
\* The GET routes under /api/notes in the order of their app.get calls; a
\* path is the sequence of its segments, a segment ":x" of a route is a
\* parameter.  Express hands the request to the first route that matches,
\* and none of these handlers calls next().
GetRoutes == << <<"api", "notes", ":id">>, <<"api", "notes">>, <<"api", "notes", "private">> >>

GetPaths == { <<"api", "notes">>, <<"api", "notes", "private">> }
                \cup { <<"api", "notes", d>> : d \in {"1", "2"} }

isParam(seg) == seg \in {":id"}

matches(route, path) ==
    /\ Len(route) = Len(path)
    /\ \A i \in 1..Len(route) : isParam(route[i]) \/ route[i] = path[i]

\* the index of the first route that matches the path, 0 when none does
dispatch(path) ==
    IF \E i \in 1..Len(GetRoutes) : matches(GetRoutes[i], path)
    THEN CHOOSE i \in 1..Len(GetRoutes) :
            /\ matches(GetRoutes[i], path)
            /\ \A j \in 1..(i - 1) : ~matches(GetRoutes[j], path)
    ELSE 0

\* WHERE id = ? with the text of the path segment: the row whose id is the
\* number the text writes, no row for a text that writes none
paramId(seg) ==
    IF seg = "1" THEN 1 ELSE IF seg = "2" THEN 2 ELSE NULL

\* requireAuth, then SELECT * FROM notes WHERE user_id = ?
privateListResponse(sess) ==
    IF sess.userId = NULL
    THEN [status |-> 401, body |-> [error |-> "login required"]]
    ELSE [status |-> 200,
          body |-> {listItem(notes[i]) : i \in {j \in DOMAIN notes :
                                                   notes[j].user_id = sess.userId}}]

\* what a GET of the path answers the session
getResponse(path, sess, includePrivate) ==
    LET route == dispatch(path) IN
    IF route = 1 THEN getNoteResponse(selectNote(paramId(path[3])), sess)
    ELSE IF route = 2 THEN listResponse(sess, includePrivate)
    ELSE IF route = 3 THEN privateListResponse(sess)
    ELSE [status |-> 404, body |-> [error |-> "Cannot GET"]]

GetRequest(s, path, includePrivate, fault) ==
    LET r == IF fault THEN faultResponse ELSE getResponse(path, session[s], includePrivate) IN
    /\ resp' = [op |-> "get", s |-> s, id |-> NULL, path |-> path,
                status |-> r.status, body |-> r.body]
    /\ reported' = IF r.status = 410
                   THEN [reported EXCEPT !.notes = @ \cup {paramId(path[3])}]
                   ELSE reported
    /\ UNCHANGED <<notes, nextNoteId, shares, nextShareId, session, now, inflight, db, pool>>

NextRoutes ==
    \/ \E s \in DOMAIN session, u \in Users : Login(s, u)
    \/ \E s \in DOMAIN session : Logout(s)
    \/ Tick
    \/ \E s \in DOMAIN session, req \in ReadsCreateRequests : CreateNote(s, req, FALSE)
    \/ \E s \in DOMAIN session, path \in GetPaths, ip \in BOOLEAN, fault \in BOOLEAN :
          GetRequest(s, path, ip, fault)

SpecRoutes == Init /\ [][NextRoutes]_vars

(* ------------------- requests between their awaits -------------------- *)
\* The handlers of GET /share/:code and of the two unlock routes, one await
\* at a time.  The session middleware hands every request its own copy of
\* the stored session when the request starts, and stores the copy again at
\* the end of the response if the handler changed it (resave: false).
BeginRequest(s, kind, target, password) ==
    /\ Len(inflight) < MaxInflight
    /\ inflight' = Append(inflight,
                          [kind |-> kind, s |-> s, target |-> target, password |-> password,
                           pc |-> "loaded", sess |-> session[s], row |-> <<>>,
                           status |-> NULL, body |-> <<>>])
    /\ UNCHANGED <<notes, nextNoteId, shares, nextShareId, session, now, resp, reported, db, pool>>

\* await executeQuery('SELECT * FROM shares WHERE share_code = ?') and the
\* returns that follow it: 404, 410, the password page
ViewSelectShare(r) ==
    LET q == inflight[r]
        rows == selectShare(q.target)
        gone == Len(rows) = 0
        expired == ~gone /\ isExpired(rows[1])
        locked == ~gone /\ ~expired /\ rows[1].password # NoHash
                        /\ ~includes(q.sess.unlockedShares, rows[1].id) IN
    /\ q.kind = "viewShare" /\ q.pc = "loaded"
    /\ inflight' = [inflight EXCEPT ![r] =
          IF gone THEN [q EXCEPT !.pc = "done", !.status = 404,
                                 !.body = [error |-> "Share not found"]]
          ELSE IF expired THEN [q EXCEPT !.pc = "done", !.status = 410,
                                         !.body = [error |-> "Share expired"]]
          ELSE IF locked THEN [q EXCEPT !.pc = "done", !.status = 200,
                                        !.body = [passwordPage |-> TRUE]]
          ELSE [q EXCEPT !.pc = "share", !.row = rows[1]]]
    /\ reported' = IF expired
                   THEN [reported EXCEPT !.shares = @ \cup {rows[1].id}]
                   ELSE reported
    /\ UNCHANGED <<notes, nextNoteId, shares, nextShareId, session, now, resp, db, pool>>

\* await executeQuery('SELECT * FROM notes WHERE id = ?', [share.note_id])
ViewSelectNote(r) ==
    LET q == inflight[r]
        noteRows == selectNote(q.row.note_id) IN
    /\ q.kind = "viewShare" /\ q.pc = "share"
    /\ inflight' = [inflight EXCEPT ![r] =
          IF Len(noteRows) = 0
          THEN [q EXCEPT !.pc = "done", !.status = 404, !.body = [error |-> "Note not found"]]
          ELSE [q EXCEPT !.pc = "note",
                         !.body = [title |-> noteRows[1].title,
                                   metadata |-> JSONparse(noteRows[1].metadata),
                                   htmlContent |-> markedParse(noteRows[1].content),
                                   views |-> q.row.views]]]
    /\ UNCHANGED <<notes, nextNoteId, shares, nextShareId, session, now, resp, reported, db, pool>>

\* faulty variant: the counter is written from the row the request loaded
ViewUpdateViews_fromLoadedRow(r) ==
    LET q == inflight[r] IN
    /\ q.kind = "viewShare" /\ q.pc = "note"
    /\ shares' = IF q.row.id \in DOMAIN shares
                 THEN [shares EXCEPT ![q.row.id].views = q.row.views + 1]
                 ELSE shares
    /\ inflight' = [inflight EXCEPT ![r] = [q EXCEPT !.pc = "done", !.status = 200]]
    /\ UNCHANGED <<notes, nextNoteId, nextShareId, session, now, resp, reported, db, pool>>

\* await executeUpdate('UPDATE shares SET views = views + 1 WHERE id = ?'):
\* one statement, the database adds 1 to the value stored at that moment;
\* then res.send(page)
ViewUpdateViews(r) ==
    LET q == inflight[r] IN
    /\ q.kind = "viewShare" /\ q.pc = "note"
    /\ shares' = IF q.row.id \in DOMAIN shares
                 THEN [shares EXCEPT ![q.row.id].views = @ + 1]
                 ELSE shares
    /\ inflight' = [inflight EXCEPT ![r] = [q EXCEPT !.pc = "done", !.status = 200]]
    /\ UNCHANGED <<notes, nextNoteId, nextShareId, session, now, resp, reported, db, pool>>

\* the SELECT and bcrypt.compare of the two unlock handlers, then the push
\* onto the request's own copy of the session
UnlockVerify(r) ==
    LET q == inflight[r]
        rows == IF q.kind = "unlockNote" THEN selectNote(q.target) ELSE selectShare(q.target)
        a == IF q.kind = "unlockNote" THEN unlockNoteResponse(rows, q.password)
             ELSE unlockShareResponse(rows, q.password) IN
    /\ q.kind \in {"unlockNote", "unlockShare"} /\ q.pc = "loaded"
    /\ inflight' = [inflight EXCEPT ![r] =
          IF a.status # 200
          THEN [q EXCEPT !.pc = "done", !.status = a.status, !.body = a.body]
          ELSE [q EXCEPT !.pc = "save", !.status = 200, !.body = a.body, !.row = rows[1],
                         !.sess = IF q.kind = "unlockNote"
                                  THEN [q.sess EXCEPT !.unlockedNotes = Append(@, rows[1].id)]
                                  ELSE [q.sess EXCEPT !.unlockedShares = Append(@, rows[1].id)]]]
    /\ UNCHANGED <<notes, nextNoteId, shares, nextShareId, session, now, resp, reported, db, pool>>

\* res.json(...) ends the response: the changed session is stored whole
SessionSave(r) ==
    LET q == inflight[r] IN
    /\ q.pc = "save"
    /\ session' = [session EXCEPT ![q.s] = q.sess]
    /\ inflight' = [inflight EXCEPT ![r] = [q EXCEPT !.pc = "done"]]
    /\ UNCHANGED <<notes, nextNoteId, shares, nextShareId, now, resp, reported, db, pool>>

\* one password note, one share of it with or without a password, and up
\* to MaxInflight requests whose steps interleave
RaceNoteRequests ==
    {req \in CreateRequests :
        /\ req.title = "t1" /\ req.authorToken = UNDEFINED /\ req.expiresIn = NULL
        /\ req.visibility = "password" /\ req.password = "abc"}

RaceShareRequests == {req \in ShareRequests : req.noteId # NULL /\ req.expiresIn = NULL}

NextRace ==
    \/ \E s \in DOMAIN session, req \in RaceNoteRequests : CreateNote(s, req, FALSE)
    \/ \E s \in DOMAIN session, req \in RaceShareRequests : CreateShare(s, req, IssuedCode, FALSE)
    \/ \E s \in DOMAIN session : BeginRequest(s, "viewShare", IssuedCode, UNDEFINED)
    \/ \E s \in DOMAIN session, id \in NoteIds, pw \in Passwords :
          BeginRequest(s, "unlockNote", id, pw)
    \/ \E s \in DOMAIN session, pw \in Passwords : BeginRequest(s, "unlockShare", IssuedCode, pw)
    \/ \E r \in DOMAIN inflight : ViewSelectShare(r)
    \/ \E r \in DOMAIN inflight : ViewSelectNote(r)
    \/ \E r \in DOMAIN inflight : ViewUpdateViews(r)
    \/ \E r \in DOMAIN inflight : UnlockVerify(r)
    \/ \E r \in DOMAIN inflight : SessionSave(r)

SpecRace == Init /\ [][NextRace]_vars

(* ======================= properties of the model ====================== *)
\* the policy verdict a note-read response stands for
verdict(r) ==
    IF r.status = 404 THEN "NotFound"
    ELSE IF r.status = 403 THEN "Forbidden"
    ELSE IF r.status = 410 THEN "Expired"
    ELSE IF r.status = 200 /\ "requiresPassword" \in DOMAIN r.body THEN "RequiresPassword"
    ELSE IF r.status = 200 THEN "Allow"
    ELSE "Fault"

\* what GET /api/notes/:id answers session s for note id in the current state
noteRead(id, s) == getNoteResponse(selectNote(id), session[s])

isOwner(id, s) == session[s].userId # NULL /\ session[s].userId = notes[id].user_id

\* C1 as stated: an expired note reads Expired for every actor, whatever its
\* visibility, owner, or the actor's session user and unlock ledger.
C1_ExpiredForEveryActor ==
    \A id \in DOMAIN notes, s \in DOMAIN session :
        isExpired(notes[id]) => verdict(noteRead(id, s)) = "Expired"

\* C1 amended: an expired note reads Expired for every actor who passes the
\* private-ownership check, whatever the unlock ledger holds (expiry decides
\* before the password check); an actor who is not the owner of an expired
\* private note reads Forbidden (the ownership check decides before expiry).
C1_ExpiryAfterOwnership ==
    \A id \in DOMAIN notes, s \in DOMAIN session :
        isExpired(notes[id]) =>
            verdict(noteRead(id, s)) =
                IF notes[id].visibility = "private" /\ ~isOwner(id, s)
                THEN "Forbidden" ELSE "Expired"

\* an expired password note was read by a session that had unlocked it: 410
C1_Witness ==
    /\ resp.op = "getNote" /\ resp.status = 410
    /\ resp.id \in DOMAIN notes
    /\ notes[resp.id].visibility = "password" /\ notes[resp.id].password # NoHash
    /\ includes(session[resp.s].unlockedNotes, resp.id)

\* C2: a non-expired private note reads Allow exactly for the session whose
\* user is the note's owner and Forbidden for everyone else, never
\* RequiresPassword.
C2_PrivateOwnerOnly ==
    \A id \in DOMAIN notes, s \in DOMAIN session :
        (notes[id].visibility = "private" /\ ~isExpired(notes[id])) =>
            verdict(noteRead(id, s)) = IF isOwner(id, s) THEN "Allow" ELSE "Forbidden"

\* the owner has read the private note and got its content
C2_Witness ==
    /\ resp.op = "getNote" /\ resp.status = 200
    /\ resp.id \in DOMAIN notes
    /\ notes[resp.id].visibility = "private"
    /\ "content" \in DOMAIN resp.body
    /\ isOwner(resp.id, resp.s)

\* C3: a non-expired password note with a stored hash reads RequiresPassword
\* for a session that has not unlocked it and Allow for one that has, and an
\* id once in a session's unlockedNotes stays there for as long as the
\* session lives (until its logout), so every later read is Allow.
C3_UnlockThenAllow ==
    /\ [](\A id \in DOMAIN notes, s \in DOMAIN session :
            (notes[id].visibility = "password" /\ notes[id].password # NoHash
             /\ ~isExpired(notes[id])) =>
                verdict(noteRead(id, s)) =
                    IF includes(session[s].unlockedNotes, id)
                    THEN "Allow" ELSE "RequiresPassword")
    /\ [][\A s \in DOMAIN session, id \in NoteIds :
            (includes(session[s].unlockedNotes, id)
             /\ ~(resp'.op = "logout" /\ resp'.s = s)) =>
                includes(session'[s].unlockedNotes, id)]_vars

\* a password note has been read with Allow after its unlock
C3_Witness ==
    /\ resp.op = "getNote" /\ resp.status = 200
    /\ resp.id \in DOMAIN notes
    /\ notes[resp.id].visibility = "password" /\ notes[resp.id].password # NoHash
    /\ "content" \in DOMAIN resp.body
    /\ includes(session[resp.s].unlockedNotes, resp.id)

\* what PUT /api/notes/:id answers session s for body req in the current state
noteUpdate(id, s, req) == updateResponse(selectNote(id), session[s], req)

\* what DELETE /api/notes/:id answers session s in the current state
noteDelete(id, s) == deleteResponse(selectNote(id), session[s])

\* C4: a note with an authorToken is updated exactly by a request that
\* supplies that token: 403 for a missing or different token even from the
\* owner's session, 200 for the matching token whatever the session user.
C4_TokenDecidesUpdate ==
    \A id \in DOMAIN notes, s \in DOMAIN session, req \in UpdateRequests :
        notes[id].author_token # NoToken =>
            noteUpdate(id, s, req).status =
                IF req.authorToken = notes[id].author_token THEN 200 ELSE 403

\* the owner's own session was refused the update of a token note
C4_Witness ==
    /\ resp.op = "update" /\ resp.status = 403
    /\ resp.id \in DOMAIN notes
    /\ notes[resp.id].author_token # NoToken
    /\ isOwner(resp.id, resp.s)

\* C5 as stated: a note with an owner and no authorToken is updated and
\* deleted exactly by a session logged in as the owner; anonymous sessions and
\* other users get 403.
C5_OwnerOnlyMutation ==
    \A id \in DOMAIN notes, s \in DOMAIN session, req \in UpdateRequests :
        (notes[id].author_token = NoToken /\ notes[id].user_id # NULL) =>
            /\ noteUpdate(id, s, req).status = IF isOwner(id, s) THEN 200 ELSE 403
            /\ noteDelete(id, s).status = IF isOwner(id, s) THEN 200 ELSE 403

\* C6 as stated: delete is permitted exactly when update is permitted, for
\* every note, session and supplied token.
C6_DeleteSameAsUpdate ==
    \A id \in DOMAIN notes, s \in DOMAIN session, req \in UpdateRequests :
        (noteDelete(id, s).status = 200) <=> (noteUpdate(id, s, req).status = 200)

\* C7: a note with neither authorToken nor owner is updated and deleted by
\* every actor, anonymous or logged in, whatever token the request carries.
C7_OwnerlessOpenToAll ==
    \A id \in DOMAIN notes, s \in DOMAIN session, req \in UpdateRequests :
        (notes[id].author_token = NoToken /\ notes[id].user_id = NULL) =>
            /\ noteUpdate(id, s, req).status = 200
            /\ noteDelete(id, s).status = 200

\* a logged-in user has updated an ownerless, tokenless note
C7_Witness ==
    /\ resp.op = "update" /\ resp.status = 200
    /\ resp.id \in DOMAIN notes
    /\ notes[resp.id].author_token = NoToken /\ notes[resp.id].user_id = NULL
    /\ notes[resp.id].content = "c2"
    /\ session[resp.s].userId # NULL

\* C8 as stated: the rendered page GET /note/:id gives a note's content only
\* to an actor whose verdict on the JSON read is Allow.
C8_PageFollowsVerdict ==
    \A id \in DOMAIN notes, s \in DOMAIN session :
        verdict(noteRead(id, s)) # "Allow" =>
            "htmlContent" \notin DOMAIN notePageResponse(selectNote(id)).body

\* a response body that is a record and has no password field
noPasswordField(body) == "password" \notin DOMAIN body

\* C9: no note or share read sends a stored hash: the single-note read, the
\* note page, the share info and the share page have no password field at
\* all, and the list and the share info carry only a boolean flag.
C9_NoHashInResponses ==
    /\ \A id \in NoteIds, s \in DOMAIN session :
          /\ noPasswordField(noteRead(id, s).body)
          /\ noPasswordField(notePageResponse(selectNote(id)).body)
    /\ \A s \in DOMAIN session, ip \in BOOLEAN :
          \A item \in listResponse(session[s], ip).body : item.password \in BOOLEAN
    /\ \A card \in homeResponse.body : noPasswordField(card)
    /\ \A code \in ShareCodes, s \in DOMAIN session :
          /\ noPasswordField(shareInfoResponse(selectShare(code)).body)
          /\ shareInfoResponse(selectShare(code)).status = 200 =>
                shareInfoResponse(selectShare(code)).body.hasPassword \in BOOLEAN
          /\ noPasswordField(viewShareResponse(selectShare(code), session[s]).body)

\* a note with a stored hash has been read with Allow after its unlock
C9_Witness ==
    /\ resp.op = "getNote" /\ resp.status = 200
    /\ resp.id \in DOMAIN notes
    /\ notes[resp.id].password # NoHash
    /\ resp.body = noteJson(notes[resp.id])

\* C10: the RequiresPassword response is exactly the note's id and title with
\* the requiresPassword flag and the fixed message: no content, metadata,
\* owner or author token.
C10_PromptCarriesIdAndTitleOnly ==
    \A id \in DOMAIN notes, s \in DOMAIN session :
        verdict(noteRead(id, s)) = "RequiresPassword" =>
            /\ DOMAIN noteRead(id, s).body = {"id", "title", "requiresPassword", "message"}
            /\ noteRead(id, s).body.id = id
            /\ noteRead(id, s).body.title = notes[id].title
            /\ noteRead(id, s).body.message = "password needed"

\* a locked note was read and the prompt sent
C10_Witness ==
    /\ resp.op = "getNote" /\ resp.status = 200
    /\ resp.id \in DOMAIN notes
    /\ "requiresPassword" \in DOMAIN resp.body
    /\ notes[resp.id].author_token # NoToken /\ notes[resp.id].user_id # NULL

(* ------------------------------ share views --------------------------- *)
\* the policy verdict a share-page response stands for
shareVerdict(r) ==
    IF r.status = 404 THEN "NotFound"
    ELSE IF r.status = 410 THEN "Expired"
    ELSE IF r.status = 200 /\ "passwordPage" \in DOMAIN r.body THEN "RequiresPassword"
    ELSE IF r.status = 200 /\ "htmlContent" \in DOMAIN r.body THEN "Allow"
    ELSE "Fault"

\* what GET /share/:code answers session s in the current state
shareView(code, s) == viewShareResponse(selectShare(code), session[s])

served(r) == r.op = "viewShare" /\ r.status = 200 /\ "htmlContent" \in DOMAIN r.body

\* C12: a share view that answers Allow adds exactly 1 to the views of the
\* share viewed, so k allowed views add k; a view that answers NotFound,
\* Expired or RequiresPassword, and every other operation, leaves the views
\* of every stored share as they were.  (Tick is the one step that sends no
\* response, so a step with now unchanged answered resp'.)
C12_AllowedViewAddsOne ==
    [][\A i \in DOMAIN shares \cap DOMAIN shares' :
          shares'[i].views =
              IF now' = now /\ served(resp') /\ shares[i].share_code = resp'.code
              THEN shares[i].views + 1
              ELSE shares[i].views]_vars

\* the second allowed view of a share: the page showed 1, the counter is 2
C12_Witness ==
    /\ served(resp) /\ resp.body.views = 1
    /\ Len(selectShare(resp.code)) # 0
    /\ selectShare(resp.code)[1].views = 2

(* --------------------------- concurrent requests ---------------------- *)
\* the requests that have served the page of share i
servedViews(i) ==
    {r \in DOMAIN inflight :
        /\ inflight[r].kind = "viewShare" /\ inflight[r].pc = "done"
        /\ inflight[r].status = 200 /\ "htmlContent" \in DOMAIN inflight[r].body
        /\ inflight[r].row.id = i}

\* C13: however the steps of concurrent views of a share interleave, the
\* counter of the share is the number of views that were allowed: N allowed
\* views leave it exactly N higher than the 0 it is created with.
C13_ConcurrentViewsAllCounted ==
    \A i \in DOMAIN shares : shares[i].views = Cardinality(servedViews(i))

\* two allowed views have both loaded the share row with views = 0 before
\* either incremented, and both are done
C13_Witness ==
    \E i \in DOMAIN shares :
        /\ shares[i].views = 2
        /\ \E r1, r2 \in servedViews(i) :
              r1 # r2 /\ inflight[r1].body.views = 0 /\ inflight[r2].body.views = 0

(* -------------------------------- unlock ------------------------------ *)
\* the outcome an unlock response stands for
unlockVerdict(r) ==
    IF r.status = 404 THEN "NotFound"
    ELSE IF r.status = 401 THEN "WrongPassword"
    ELSE IF r.status = 200 THEN "Unlocked"
    ELSE "Fault"

\* the ids an unlocked list holds
elements(arr) == {arr[i] : i \in 1..Len(arr)}

\* C14: an unlock of a stored note or share with a supplied password answers
\* Unlocked exactly when the resource has no hash or the password verifies
\* against the hash, and WrongPassword otherwise, in every state (so also
\* after wrong attempts); an Unlocked answer adds the id to the session's
\* list for that kind of resource and changes nothing else in the session,
\* a WrongPassword answer leaves the session as it was.
C14_UnlockExactlyWhenVerified ==
    /\ [](\A pw \in Passwords :
            /\ \A id \in DOMAIN notes :
                  unlockVerdict(unlockNoteResponse(selectNote(id), pw)) =
                      IF notes[id].password = NoHash \/ bcryptCompare(pw, notes[id].password)
                      THEN "Unlocked" ELSE "WrongPassword"
            /\ \A i \in DOMAIN shares :
                  unlockVerdict(unlockShareResponse(selectShare(shares[i].share_code), pw)) =
                      IF shares[i].password = NoHash \/ bcryptCompare(pw, shares[i].password)
                      THEN "Unlocked" ELSE "WrongPassword")
    /\ [][(now' = now /\ resp'.op \in {"unlock", "unlockShare"}) =>
            LET s == resp'.s
                before == session[s]
                after == session'[s] IN
            /\ \A t \in DOMAIN session \ {s} : session'[t] = session[t]
            /\ after.userId = before.userId
            /\ unlockVerdict(resp') = "WrongPassword" => after = before
            /\ (unlockVerdict(resp') = "Unlocked" /\ resp'.op = "unlock") =>
                  /\ elements(after.unlockedNotes) =
                        elements(before.unlockedNotes) \cup {resp'.id}
                  /\ after.unlockedShares = before.unlockedShares
            /\ (unlockVerdict(resp') = "Unlocked" /\ resp'.op = "unlockShare") =>
                  /\ elements(after.unlockedShares) =
                        elements(before.unlockedShares) \cup {selectShare(resp'.code)[1].id}
                  /\ after.unlockedNotes = before.unlockedNotes]_vars

\* a share with a hash was unlocked in a session that holds an unlocked
\* note, and the list of notes is still there
C14_Witness ==
    /\ resp.op = "unlockShare" /\ resp.status = 200
    /\ Len(selectShare(resp.code)) # 0
    /\ selectShare(resp.code)[1].password # NoHash
    /\ includes(session[resp.s].unlockedShares, selectShare(resp.code)[1].id)
    /\ session[resp.s].unlockedNotes # <<>>

\* how often x occurs in the list arr
occurrences(arr, x) == Cardinality({i \in 1..Len(arr) : arr[i] = x})

\* C15: unlock is idempotent: after a note or share has been unlocked more
\* than once in a session, with Unlocked each time, the session's list
\* holds its id exactly once; so no list ever holds an id twice.
C15_UnlockedIdOnce ==
    \A s \in DOMAIN session :
        /\ \A id \in NoteIds : occurrences(session[s].unlockedNotes, id) <= 1
        /\ \A i \in 1..MaxShares : occurrences(session[s].unlockedShares, i) <= 1

\* C16 as stated: the unlock ledger is append-only: whatever the operation
\* (unlock, read, update, delete, login, logout), an id that is in a
\* session's unlockedNotes or unlockedShares is still in it afterwards.
C16_LedgerAppendOnly ==
    [][\A s \in DOMAIN session :
          /\ \A id \in NoteIds : includes(session[s].unlockedNotes, id) =>
                                    includes(session'[s].unlockedNotes, id)
          /\ \A i \in 1..MaxShares : includes(session[s].unlockedShares, i) =>
                                       includes(session'[s].unlockedShares, i)]_vars

\* C16 amended: every operation other than the session's own logout keeps
\* the ids of unlockedNotes and unlockedShares (also the delete of the note
\* or share they name, and a login); the logout destroys the session, and
\* the two lists with it.
C16_LedgerAppendOnlyUntilLogout ==
    [][\A s \in DOMAIN session :
          IF now' = now /\ resp'.op = "logout" /\ resp'.s = s
          THEN session'[s] = newSession
          ELSE /\ \A id \in NoteIds : includes(session[s].unlockedNotes, id) =>
                                         includes(session'[s].unlockedNotes, id)
               /\ \A i \in 1..MaxShares : includes(session[s].unlockedShares, i) =>
                                            includes(session'[s].unlockedShares, i)]_vars

\* a session that holds an unlocked note and an unlocked share has logged
\* in after the unlocks and still holds both
C16_Witness ==
    /\ resp.op = "login"
    /\ session[resp.s].unlockedNotes # <<>>
    /\ session[resp.s].unlockedShares # <<>>

(* ------------------------------ two sessions -------------------------- *)
\* C17: the unlock state belongs to one session.  A note or share that asks
\* for a password answers a session RequiresPassword exactly as long as that
\* session's own list does not hold its id, whatever the other sessions have
\* unlocked; and an unlock sent by session a leaves the verdict of every
\* read by every other session b as it was.
C17_UnlockScopedToSession ==
    /\ [](\A b \in DOMAIN session :
            /\ \A id \in DOMAIN notes :
                  (notes[id].visibility = "password" /\ notes[id].password # NoHash) =>
                      (verdict(noteRead(id, b)) = "RequiresPassword"
                          <=> ~includes(session[b].unlockedNotes, id))
            /\ \A i \in DOMAIN shares :
                  shares[i].password # NoHash =>
                      (shareVerdict(shareView(shares[i].share_code, b)) = "RequiresPassword"
                          <=> ~includes(session[b].unlockedShares, i)))
    /\ [][(resp'.op \in {"unlock", "unlockShare"} /\ now' = now) =>
            \A b \in DOMAIN session \ {resp'.s} :
                /\ session'[b] = session[b]
                /\ \A id \in NoteIds :
                      verdict(noteRead(id, b))' = verdict(noteRead(id, b))
                /\ \A code \in ShareCodes :
                      shareVerdict(shareView(code, b))' = shareVerdict(shareView(code, b))]_vars

\* one session has unlocked the note, and the read of another session that
\* has not was answered with the password prompt
C17_Witness ==
    /\ resp.op = "getNote" /\ resp.status = 200 /\ "requiresPassword" \in DOMAIN resp.body
    /\ ~includes(session[resp.s].unlockedNotes, resp.id)
    /\ \E a \in DOMAIN session \ {resp.s} : includes(session[a].unlockedNotes, resp.id)

(* ------------------------- expiry, once reported ---------------------- *)
\* C18 as stated: once a read has answered Expired for a note or a share,
\* every later read of it answers Expired, for every session and whatever
\* the sessions have unlocked before or after.
C18_ReportedExpiredStaysExpired ==
    \A s \in DOMAIN session :
        /\ \A id \in reported.notes : verdict(noteRead(id, s)) = "Expired"
        /\ \A i \in reported.shares :
              /\ i \in DOMAIN shares
              /\ shareVerdict(shareView(shares[i].share_code, s)) = "Expired"

\* C18 amended: once a read has answered Expired for a note or a share, no
\* later read of it answers Allow or RequiresPassword, whatever is unlocked
\* before or after: as long as it is stored, a share answers Expired to
\* every session, and a note answers Expired to every session that passes
\* the private-ownership check and Forbidden to the others; once it is
\* deleted the read answers NotFound.
C18_ReportedExpiredNeverReadable ==
    \A s \in DOMAIN session :
        /\ \A id \in reported.notes :
              verdict(noteRead(id, s)) =
                  IF id \notin DOMAIN notes THEN "NotFound"
                  ELSE IF notes[id].visibility = "private" /\ ~isOwner(id, s) THEN "Forbidden"
                  ELSE "Expired"
        /\ \A i \in reported.shares :
              i \in DOMAIN shares =>
                  shareVerdict(shareView(shares[i].share_code, s)) = "Expired"

\* a note with a hash was unlocked after a read had answered Expired for it,
\* and a read by the session that unlocked it still answers Expired
C18_Witness ==
    /\ resp.op = "unlock" /\ resp.status = 200
    /\ resp.id \in reported.notes /\ resp.id \in DOMAIN notes
    /\ notes[resp.id].password # NoHash
    /\ verdict(noteRead(resp.id, resp.s)) = "Expired"

\* the session list an unlock request of kind k pushes onto
ledgerOf(k, sess) == IF k = "unlockNote" THEN sess.unlockedNotes ELSE sess.unlockedShares

\* C19: when concurrent unlock requests of one session (each loads the
\* session, pushes its id, stores the session) have all been answered, the
\* stored session holds the id of every resource that was unlocked.
C19_ConcurrentUnlocksAllSaved ==
    (\A r \in DOMAIN inflight : inflight[r].pc = "done") =>
        \A r \in DOMAIN inflight :
            (inflight[r].kind \in {"unlockNote", "unlockShare"} /\ inflight[r].status = 200) =>
                includes(ledgerOf(inflight[r].kind, session[inflight[r].s]), inflight[r].row.id)

(* ------------------------------ stored notes -------------------------- *)
\* C20: every stored note has a password hash exactly when its visibility
\* is 'password'.
C20_HashIffPasswordVisibility ==
    \A id \in DOMAIN notes :
        notes[id].password # NoHash <=> notes[id].visibility = "password"

(* ------------------------------- updates ------------------------------ *)
\* C21: whatever an update answers, the note keeps its id, author_token,
\* user_id, visibility, password hash and expires_at, and every other note
\* is left alone; an allowed update writes exactly the title, content and
\* metadata that the request supplies; a refused update (404, 403, 500) and
\* an update that supplies no field change nothing.  (A step that answers
\* an update is looked at with every request that can have caused it.)
C21_UpdateWritesSuppliedFieldsOnly ==
    [][(now' = now /\ resp'.op = "update") =>
          \A id \in {resp'.id}, req \in UpdateRequests, fault \in BOOLEAN :
          UpdateNote(resp'.s, id, req, fault) =>
              /\ DOMAIN notes' = DOMAIN notes
              /\ \A other \in DOMAIN notes \ {id} : notes'[other] = notes[other]
              /\ id \in DOMAIN notes =>
                    /\ notes'[id].id = notes[id].id
                    /\ notes'[id].author_token = notes[id].author_token
                    /\ notes'[id].user_id = notes[id].user_id
                    /\ notes'[id].visibility = notes[id].visibility
                    /\ notes'[id].password = notes[id].password
                    /\ notes'[id].expires_at = notes[id].expires_at
                    /\ notes'[id].title =
                          IF resp'.status = 200 /\ req.title # UNDEFINED
                          THEN req.title ELSE notes[id].title
                    /\ notes'[id].content =
                          IF resp'.status = 200 /\ req.content # UNDEFINED
                          THEN req.content ELSE notes[id].content
                    /\ notes'[id].metadata =
                          IF resp'.status = 200 /\ req.metadata # UNDEFINED
                          THEN JSONstringify(req.metadata) ELSE notes[id].metadata
              /\ (resp'.status # 200
                    \/ (req.title = UNDEFINED /\ req.content = UNDEFINED
                          /\ req.metadata = UNDEFINED)) => notes' = notes]_vars

\* a note with a token, a hash and an expiry has had its title, content and
\* metadata rewritten by an allowed update
C21_Witness ==
    /\ resp.op = "update" /\ resp.status = 200
    /\ resp.id \in DOMAIN notes
    /\ notes[resp.id].title = "t2" /\ notes[resp.id].content = "c2"
    /\ notes[resp.id].metadata = JSONstringify("m2")
    /\ notes[resp.id].author_token # NoToken /\ notes[resp.id].password # NoHash
    /\ notes[resp.id].expires_at # NULL

(* ----------------------- password notes without hash ------------------ *)
\* C22: a note with visibility 'password' and no stored hash that is not
\* expired reads Allow, with its content, for every session, whatever the
\* session's user and unlocked list: never RequiresPassword, never a fault.
C22_PasswordNoteWithoutHashAllowed ==
    \A id \in DOMAIN notes, s \in DOMAIN session :
        (notes[id].visibility = "password" /\ notes[id].password = NoHash
            /\ ~isExpired(notes[id])) =>
                /\ verdict(noteRead(id, s)) = "Allow"
                /\ "content" \in DOMAIN noteRead(id, s).body
                /\ noteRead(id, s).body.content = notes[id].content

\* an anonymous session that has unlocked nothing has read the content of a
\* password note that has no hash
C22_Witness ==
    /\ resp.op = "getNote" /\ resp.status = 200
    /\ resp.id \in DOMAIN notes
    /\ notes[resp.id].visibility = "password" /\ notes[resp.id].password = NoHash
    /\ "content" \in DOMAIN resp.body
    /\ session[resp.s].userId = NULL /\ session[resp.s].unlockedNotes = <<>>

(* --------------------------- collaborator faults ---------------------- *)
\* C23: when the record store or the hash service fails during a note read,
\* an unlock, an update or a delete, the request answers the generic
\* failure (500: not NotFound, Forbidden, Expired, RequiresPassword or
\* WrongPassword), and the sessions, the stored notes and the stored shares
\* are as they were.  (A step that answers one of the four operations is
\* looked at with every request that can have caused it with a fault.)
C23_FaultAnswers500ChangesNothing ==
    [][(now' = now /\ resp'.op \in {"getNote", "unlock", "update", "delete"}) =>
          LET s == resp'.s
              id == resp'.id
              faulted ==
                  \/ resp'.op = "getNote" /\ GetNote(s, id, TRUE)
                  \/ resp'.op = "unlock" /\ \E pw \in Passwords \cup {UNDEFINED} :
                                                UnlockNote(s, id, pw, TRUE)
                  \/ resp'.op = "update" /\ \E req \in UpdateRequests :
                                                UpdateNote(s, id, req, TRUE)
                  \/ resp'.op = "delete" /\ \E cascade \in BOOLEAN :
                                                DeleteNote(s, id, cascade, TRUE)
          IN faulted =>
                /\ verdict(resp') = "Fault" /\ unlockVerdict(resp') = "Fault"
                /\ resp'.status = 500
                /\ session' = session /\ notes' = notes /\ shares' = shares]_vars

\* the delete of a stored note that the session may delete has answered 500,
\* and the note is still stored
C23_Witness ==
    /\ resp.op = "delete" /\ resp.status = 500
    /\ resp.id \in DOMAIN notes
    /\ deletePermitted(selectNote(resp.id), session[resp.s])

(* --------------------------------- routes ----------------------------- *)
\* C24: GET /api/notes/private answers a session without a login 401, and
\* a session with a login the list of exactly the notes whose user_id is the
\* session's user.
C24_PrivateListServed ==
    \A s \in DOMAIN session, ip \in BOOLEAN :
        LET r == getResponse(<<"api", "notes", "private">>, session[s], ip) IN
        IF session[s].userId = NULL
        THEN r.status = 401
        ELSE /\ r.status = 200
             /\ r.body = {listItem(notes[i]) : i \in {j \in DOMAIN notes :
                                                        notes[j].user_id = session[s].userId}}

\* C25: the list GET /api/notes holds only public notes for a session
\* without a login and for a request without includePrivate=true; with both
\* it holds only notes that are public or whose user_id is the session's
\* user.  So no private or password note is listed for an actor who is not
\* its owner.
C25_ListPublicOrOwn ==
    \A s \in DOMAIN session, ip \in BOOLEAN :
        LET r == getResponse(<<"api", "notes">>, session[s], ip) IN
        /\ r.status = 200
        /\ \A item \in r.body :
              \/ item.visibility = "public"
              \/ /\ ip /\ session[s].userId # NULL
                 /\ item.user_id = session[s].userId

\* a logged-in session has listed its own private or password note with
\* includePrivate=true
C25_Witness ==
    /\ resp.op = "get" /\ resp.path = <<"api", "notes">> /\ resp.status = 200
    /\ session[resp.s].userId # NULL
    /\ \E item \in resp.body :
          item.visibility # "public" /\ item.user_id = session[resp.s].userId

MaxInitCalls == 3

\* Everything but db and pool.
appVars == <<notes, nextNoteId, shares, nextShareId, session, now, resp, reported, inflight>>

\* The synchronous part of initDatabase, up to its first await: with
\* isInitialized set it returns at once; otherwise it creates the MySQL pool
\* (mysql.createPool) or opens the SQLite file (new sqlite3.Database) and
\* waits for the tables or the open callback.  isInitialized is not touched
\* here.
initDatabaseEnter(d, origin) ==
    IF d.isInitialized
    THEN [d EXCEPT !.calls = Append(@, [origin |-> origin, pc |-> "resolved"])]
    ELSE [d EXCEPT !.created = @ + 1,
                   !.calls = Append(@, [origin |-> origin, pc |-> "creating"])]

\* The startup call of a process started without VERCEL: made once, when the
\* module is loaded.
StartupInit ==
    /\ ~db.vercel
    /\ db.calls = <<>>
    /\ db' = initDatabaseEnter(db, "startup")
    /\ UNCHANGED <<appVars, pool>>

\* A request reaches the initialization middleware: the server listens
\* (after a successful startup call) or the app is exported to the serverless
\* runtime.  With dbInitialized set the middleware calls next() at once;
\* otherwise it calls initDatabase and awaits it.
RequestInit ==
    /\ db.vercel \/ db.listening
    /\ Len(db.calls) < MaxInitCalls
    /\ db' = IF db.dbInitialized
             THEN [db EXCEPT !.calls = Append(@, [origin |-> "request", pc |-> "next"])]
             ELSE initDatabaseEnter(db, "request")
    /\ UNCHANGED <<appVars, pool>>

\* The awaited table creation (MySQL) or open callback (SQLite) of call c
\* settles: on success isInitialized is set and the call resolves, on failure
\* it rejects with the flag untouched.
InitSettles(c, ok) ==
    /\ c \in DOMAIN db.calls
    /\ db.calls[c].pc = "creating"
    /\ db' = IF ok
             THEN [db EXCEPT !.isInitialized = TRUE, !.calls[c].pc = "resolved"]
             ELSE [db EXCEPT !.calls[c].pc = "rejected"]
    /\ UNCHANGED <<appVars, pool>>

\* The caller of call c continues: the middleware sets dbInitialized after a
\* resolved await and calls next(), and answers 500 after a rejected one; the
\* startup chain listens after a resolved call and exits after a rejected one.
InitContinues(c) ==
    /\ c \in DOMAIN db.calls
    /\ db.calls[c].pc \in {"resolved", "rejected"}
    /\ db' = IF db.calls[c].origin = "request"
             THEN IF db.calls[c].pc = "resolved"
                  THEN [db EXCEPT !.dbInitialized = TRUE, !.calls[c].pc = "next"]
                  ELSE [db EXCEPT !.calls[c].pc = "failed"]
             ELSE IF db.calls[c].pc = "resolved"
                  THEN [db EXCEPT !.listening = TRUE, !.calls[c].pc = "listening"]
                  ELSE [db EXCEPT !.calls[c].pc = "exit"]
    /\ UNCHANGED <<appVars, pool>>

\* A process starts with or without VERCEL in its environment.
InitBoot ==
    /\ notes = <<>>
    /\ nextNoteId = 1
    /\ shares = <<>>
    /\ nextShareId = 1
    /\ session = [s \in Sessions |-> newSession]
    /\ now = 1
    /\ resp = [op |-> "none", s |-> NULL, id |-> NULL, status |-> NULL, body |-> <<>>]
    /\ reported = [notes |-> {}, shares |-> {}]
    /\ inflight = <<>>
    /\ db \in {dbBoot(v) : v \in BOOLEAN}
    /\ pool = poolIdle

NextBoot ==
    \/ StartupInit
    \/ RequestInit
    \/ \E c \in 1..MaxInitCalls, ok \in BOOLEAN : InitSettles(c, ok)
    \/ \E c \in 1..MaxInitCalls : InitContinues(c)

SpecBoot == InitBoot /\ [][NextBoot]_vars

\* C28: the database is initialized at most once per process: at most one
\* pool or connection is ever created, and the dbInitialized and isInitialized
\* flags are set only after an initialization that succeeded.
C28_InitializedAtMostOnce ==
    /\ db.created <= 1
    /\ db.isInitialized => db.created >= 1
    /\ db.dbInitialized => db.isInitialized

(* ------------------------ retrying storage calls ----------------------- *)
maxRetries == 3

NoError == [code |-> "none", message |-> ""]

\* new Error('Connection timeout') of getConnectionWithTimeout: no code.
TimeoutError == [code |-> "none", message |-> "Connection timeout"]

\* Errors of the driver, from pool.getConnection() and connection.query().
DriverErrors ==
    { [code |-> "ETIMEDOUT", message |-> "connect ETIMEDOUT"],
      [code |-> "ECONNREFUSED", message |-> "connect ECONNREFUSED"],
      [code |-> "ECONNRESET", message |-> "read ECONNRESET"],
      [code |-> "PROTOCOL_CONNECTION_LOST", message |-> "Connection lost"],
      [code |-> "ER_PARSE_ERROR", message |-> "You have an error in your SQL syntax"],
      [code |-> "ER_DUP_ENTRY", message |-> "Duplicate entry"] }

\* String.prototype.includes over the messages above.
messageIncludes(message, text) == message = text

\* faulty variant: every error is retried
isConnectionError_any(error) == TRUE

\* The retry test of the catch block.
isConnectionError(error) ==
    \/ error.code = "ETIMEDOUT"
    \/ error.code = "ECONNREFUSED"
    \/ error.code = "ECONNRESET"
    \/ error.code = "PROTOCOL_CONNECTION_LOST"
    \/ messageIncludes(error.message, "Connection timeout")
    \/ messageIncludes(error.message, "connect ETIMEDOUT")

\* connection.release() during attempt `by` on the connection held in the
\* variable `connection` of the call.
release(p, by) ==
    [p EXCEPT !.conns[p.connection].releasedBy = Append(@, by)]

\* executeQuery / executeUpdate is called: getPool(), retries = 0, connection
\* undefined, and the first pass of the loop starts getConnectionWithTimeout.
CallStart(kind) ==
    /\ pool.pc = "idle"
    /\ pool' = [pool EXCEPT !.pc = "acquire", !.kind = kind, !.retries = 0,
                            !.attempts = 1, !.connection = 0]
    /\ UNCHANGED <<appVars, db>>

\* pool.getConnection() wins the race with a connection: it is assigned to
\* `connection` and the query is sent.
AcquireResolves ==
    /\ pool.pc = "acquire"
    /\ pool' = [pool EXCEPT !.pc = "query",
                            !.conns = Append(@, [attempt |-> pool.attempts, releasedBy |-> <<>>]),
                            !.connection = Len(pool.conns) + 1]
    /\ UNCHANGED <<appVars, db>>

\* pool.getConnection() rejects before the timer: `connection` keeps its
\* value.
AcquireRejects(error) ==
    /\ pool.pc = "acquire"
    /\ pool' = [pool EXCEPT !.pc = "catch", !.error = error]
    /\ UNCHANGED <<appVars, db>>

\* The timer wins the race: the await throws 'Connection timeout' and the
\* pool.getConnection() promise stays pending, with nobody awaiting it.
AcquireTimesOut ==
    /\ pool.pc = "acquire"
    /\ pool' = [pool EXCEPT !.pc = "catch", !.error = TimeoutError, !.pending = @ + 1]
    /\ UNCHANGED <<appVars, db>>

\* A getConnection promise that lost the race settles: when it resolves, the
\* pool has handed out a connection that no attempt holds.
LateDelivery(ok) ==
    /\ pool.pending > 0
    /\ pool' = IF ok
               THEN [pool EXCEPT !.pending = @ - 1,
                                 !.conns = Append(@, [attempt |-> 0, releasedBy |-> <<>>])]
               ELSE [pool EXCEPT !.pending = @ - 1]
    /\ UNCHANGED <<appVars, db>>

\* connection.query() resolves: release and return rows (executeQuery) or
\* the result (executeUpdate).
QueryResolves ==
    /\ pool.pc = "query"
    /\ pool' = [release(pool, pool.attempts) EXCEPT
                    !.pc = "returned",
                    !.result = IF pool.kind = "query" THEN "rows" ELSE "result"]
    /\ UNCHANGED <<appVars, db>>

\* connection.query() rejects.
QueryRejects(error) ==
    /\ pool.pc = "query"
    /\ pool' = [pool EXCEPT !.pc = "catch", !.error = error]
    /\ UNCHANGED <<appVars, db>>

\* The catch block: release whatever `connection` holds, then retry after a
\* delay when the error is a connection error and retries, once incremented,
\* is below maxRetries; otherwise throw.
CatchError ==
    /\ pool.pc = "catch"
    /\ LET released == IF pool.connection # 0 THEN release(pool, pool.attempts) ELSE pool
       IN  pool' = IF isConnectionError(pool.error)
                   THEN IF pool.retries + 1 < maxRetries
                        THEN [released EXCEPT !.retries = @ + 1, !.pc = "delay"]
                        ELSE [released EXCEPT !.retries = @ + 1, !.pc = "thrown"]
                   ELSE [released EXCEPT !.pc = "thrown"]
    /\ UNCHANGED <<appVars, db>>

\* The delay of 1000 * retries ms elapses and the loop starts its next pass.
DelayElapses ==
    /\ pool.pc = "delay"
    /\ pool.retries < maxRetries
    /\ pool' = [pool EXCEPT !.pc = "acquire", !.attempts = @ + 1]
    /\ UNCHANGED <<appVars, db>>

\* The steps of a running call.
CallStep ==
    \/ AcquireResolves
    \/ \E error \in DriverErrors : AcquireRejects(error)
    \/ AcquireTimesOut
    \/ QueryResolves
    \/ \E error \in DriverErrors : QueryRejects(error)
    \/ CatchError
    \/ DelayElapses

NextRetry ==
    \/ \E kind \in {"query", "update"} : CallStart(kind)
    \/ AcquireResolves
    \/ \E error \in DriverErrors : AcquireRejects(error)
    \/ AcquireTimesOut
    \/ \E ok \in BOOLEAN : LateDelivery(ok)
    \/ QueryResolves
    \/ \E error \in DriverErrors : QueryRejects(error)
    \/ CatchError
    \/ DelayElapses

SpecRetry == Init /\ [][NextRetry]_vars

\* Every await of a running call settles: the race of getConnectionWithTimeout
\* is decided by its timer at the latest, the query and the delay complete,
\* and the event loop runs the continuation.  Nothing forces a call to be
\* made or a late getConnection promise to settle.
SpecRetryFair == Init /\ [][NextRetry]_vars /\ WF_vars(CallStep)

\* The connection-class errors: the four codes and the connection timeout.
connectionClass(error) ==
    \/ error.code \in {"ETIMEDOUT", "ECONNREFUSED", "ECONNRESET", "PROTOCOL_CONNECTION_LOST"}
    \/ error.message = "Connection timeout"

C30_ReleasedExactlyOnce ==
    /\ \A i \in DOMAIN pool.conns :
          /\ Len(pool.conns[i].releasedBy) <= 1
          /\ \A j \in DOMAIN pool.conns[i].releasedBy :
                pool.conns[i].releasedBy[j] = pool.conns[i].attempt
    /\ (pool.pc \in {"returned", "thrown"} /\ pool.pending = 0) =>
          \A i \in DOMAIN pool.conns : Len(pool.conns[i].releasedBy) = 1

====
